---- MODULE Spec2Model ----
(***************************************************************************)
(* Model of atlas-app-logs-aggregator: main.py drives authenticate()       *)
(* (auth.py) and LogPager.get_all_logs() (log_pager.py), then writes       *)
(* logs.json.  The Atlas admin API is the environment: each POST/GET gets  *)
(* a response chosen from a small set.  `requests`, `pages` and `posts`    *)
(* record the traffic; every other variable is a local or field of the    *)
(* program.                                                                *)
(***************************************************************************)
EXTENDS Integers, Sequences, FiniteSets, TLC

VARIABLES pc, args, posts, login, statuses, access_token, query_params, auth_headers,
          logs, has_next, prev_page, page_number, all_logs,
          file, writes, exc, reported, exitCode, requests, pages, logger

vars == <<pc, args, posts, login, statuses, access_token, query_params, auth_headers,
          logs, has_next, prev_page, page_number, all_logs,
          file, writes, exc, reported, exitCode, requests, pages, logger>>

(* ---------------------------- bounds ----------------------------------- *)
\* most GETs of one run that the model follows
MaxPages == 3

(* ------------------------- value universe ------------------------------ *)
\* Python None (also what dict.get returns for a missing key, and JSON null)
None == "None"
\* None where the slot otherwise holds a number (nextSkip)
NoSkip == -1

Dates == {"d1", "d2"}
\* nextEndDate values a response may carry: JSON null, "", or a date
NedValues == {None, ""} \cup Dates
Skips == {0, 2}
Tokens == {"tokA", "tokB"}

\* Python truthiness of a string-or-None value
Truthy(v) == v \notin {None, ""}

\* the "logs" arrays a response may carry
LogArrays == {<<>>, <<"e2", "e1">>}

\* A decoded JSON body of the logs endpoint.  hasLogs / hasNED / hasSkip say
\* whether the key is present; ned / skip are the values when present.
Page(hl, l, hn, n, hs, s) ==
  [hasLogs |-> hl, logs |-> l, hasNED |-> hn, ned |-> n, hasSkip |-> hs, skip |-> s]

GoodPages ==
  {Page(TRUE, l, TRUE, n, hs, IF hs THEN s ELSE NoSkip) :
      l \in LogArrays, n \in NedValues, hs \in BOOLEAN, s \in Skips}
  \cup
  {Page(TRUE, l, FALSE, None, hs, IF hs THEN s ELSE NoSkip) :
      l \in LogArrays, hs \in BOOLEAN, s \in Skips}

\* bodies without the "logs" key
MalformedPages ==
  {Page(FALSE, <<>>, hn, IF hn THEN "d1" ELSE None, FALSE, NoSkip) : hn \in BOOLEAN}

NoPage == Page(FALSE, <<>>, FALSE, None, FALSE, NoSkip)

\* dict.get(key) on a page
GetNED(p) == IF p.hasNED THEN p.ned ELSE None
GetSkip(p) == IF p.hasSkip THEN p.skip ELSE NoSkip

\* `if prev_page` : a dict is truthy when it has at least one key
PageTruthy(p) == p.hasLogs \/ p.hasNED \/ p.hasSkip

\* {**a, **b}
Merge(a, b) ==
  [k \in (DOMAIN a) \cup (DOMAIN b) |-> IF k \in DOMAIN b THEN b[k] ELSE a[k]]

\* parsed command lines: the time bounds given or not, the other filters
\* (--user_id, --type, --errors_only) given or not
ArgSets ==
  {[start_date |-> sd[1], end_date |-> sd[2], user_id |-> o[1], type |-> o[2],
    errors_only |-> o[3], verbose |-> v] :
      sd \in {<<None, None>>, <<"S", "E">>},
      o \in {<<None, None, FALSE>>, <<"ab12", "AUTH", TRUE>>},
      v \in BOOLEAN}

(* --------------------------- logger.Logger ----------------------------- *)
\* the class attribute Logger._instance, the instance's _initialized flag and
\* the level of logging.getLogger("AppLogger")
LoggerState(inst, ini, lvl) == [instance |-> inst, initialized |-> ini, level |-> lvl]
NoLogger == LoggerState(FALSE, FALSE, "NOTSET")

\* Logger.__new__: the instance is created once, with _initialized = False
LoggerNew(L) == IF ~L.instance THEN LoggerState(TRUE, FALSE, L.level) ELSE L

\* Logger.__init__: returns at once when already initialized
LoggerInit(L, verbose) ==
  IF L.initialized THEN L
  ELSE LoggerState(L.instance, TRUE, IF verbose THEN "DEBUG" ELSE "INFO")

\* the call Logger(verbose=...): __new__ then __init__
LoggerCall(L, verbose) == LoggerInit(LoggerNew(L), verbose)

\* ensure_logger: a validator called without logger= gets Logger()
EnsureLogger(L) == LoggerCall(L, FALSE)

\* validators argparse runs: the four positionals and each typed option given
ValidatorCalls(a) ==
  4 + Cardinality({d \in {"start_date", "end_date", "user_id", "type"} : a[d] # None})

RECURSIVE RunValidators(_, _)
RunValidators(L, n) == IF n = 0 THEN L ELSE RunValidators(EnsureLogger(L), n - 1)

\* HTTP status codes the API answers with
OkStatus == 200
LoginDenied == 401
ServerError == 500

\* response.raise_for_status(): raises for 4xx and 5xx
RaisesForStatus(code) == code >= 400

\* the login answer: status, and whether/what access_token the body holds
LoginResponse(st, ht, t) == [status |-> st, hasToken |-> ht, token |-> t]
NoLogin == LoginResponse(0, FALSE, None)

Unbound == <<"unbound">>
Unwritten == <<"no file">>

(* ------------------------------ Init ----------------------------------- *)
Init ==
  /\ pc = "parse"
  /\ args = [start_date |-> None, end_date |-> None, user_id |-> None,
             type |-> None, errors_only |-> FALSE, verbose |-> FALSE]
  /\ logger = NoLogger
  /\ posts = 0
  /\ login = NoLogin
  /\ statuses = <<>>
  /\ access_token = None
  /\ query_params = << >>
  /\ auth_headers = None
  /\ logs = <<>>
  /\ has_next = TRUE
  /\ prev_page = NoPage
  /\ page_number = 1
  /\ all_logs = Unbound
  /\ file = Unwritten
  /\ writes = 0
  /\ exc = "none"
  /\ reported = FALSE
  /\ exitCode = -1
  /\ requests = <<>>
  /\ pages = <<>>

(* --------------------------- main: argparse ---------------------------- *)
ParseArgs ==
  /\ pc = "parse"
  /\ \E a \in ArgSets :
       /\ args' = a
       /\ logger' = RunValidators(logger, ValidatorCalls(a))
  /\ pc' = "logger"
  /\ UNCHANGED <<login, statuses, posts, access_token, query_params, auth_headers, logs, has_next,
                 prev_page, page_number, all_logs, file, writes, exc, reported,
                 exitCode, requests, pages>>

\* a validator raises ArgumentTypeError: argparse prints usage and exits 2
ParseArgsInvalid ==
  /\ pc = "parse"
  /\ pc' = "exited"
  /\ exitCode' = 2
  /\ logger' = EnsureLogger(logger)
  /\ UNCHANGED <<login, statuses, args, posts, access_token, query_params, auth_headers, logs,
                 has_next, prev_page, page_number, all_logs, file, writes, exc,
                 reported, requests, pages>>

\* logger = Logger(verbose=args.verbose); logger.info(...)
MakeLogger ==
  /\ pc = "logger"
  /\ logger' = LoggerCall(logger, args.verbose)
  /\ pc' = "auth"
  /\ UNCHANGED <<args, posts, login, statuses, access_token, query_params,
                 auth_headers, logs, has_next, prev_page, page_number, all_logs,
                 file, writes, exc, reported, exitCode, requests, pages>>

(* ------------------------ auth.authenticate ---------------------------- *)
\* login answers 2xx with a body holding access_token: the token is returned
LoginOK ==
  /\ pc = "auth"
  /\ posts' = posts + 1
  /\ \E t \in Tokens :
       /\ login' = LoginResponse(OkStatus, TRUE, t)
       /\ ~RaisesForStatus(login'.status)
       /\ access_token' = login'.token
  /\ pc' = "build"
  /\ UNCHANGED <<logger, args, statuses, query_params, auth_headers, logs, has_next, prev_page,
                 page_number, all_logs, file, writes, exc, reported, exitCode,
                 requests, pages>>

\* raise_for_status() raises on a non-2xx answer
LoginBadStatus ==
  /\ pc = "auth"
  /\ posts' = posts + 1
  /\ \E ht \in BOOLEAN :
       login' = LoginResponse(LoginDenied, ht, IF ht THEN "tokA" ELSE None)
  /\ RaisesForStatus(login'.status)
  /\ exc' = "login_status"
  /\ pc' = "except"
  /\ UNCHANGED <<logger, args, statuses, access_token, query_params, auth_headers, logs, has_next,
                 prev_page, page_number, all_logs, file, writes, reported,
                 exitCode, requests, pages>>

\* variant: a body without access_token yields None and the run goes on
LoginNoToken_GoesOn ==
  /\ pc = "auth"
  /\ posts' = posts + 1
  /\ login' = LoginResponse(OkStatus, FALSE, None)
  /\ access_token' = None
  /\ pc' = "build"
  /\ UNCHANGED <<logger, args, statuses, query_params, auth_headers, logs, has_next,
                 prev_page, page_number, all_logs, file, writes, exc, reported,
                 exitCode, requests, pages>>

\* 2xx answer whose body has no access_token: the subscript raises KeyError
LoginNoToken ==
  /\ pc = "auth"
  /\ posts' = posts + 1
  /\ login' = LoginResponse(OkStatus, FALSE, None)
  /\ ~RaisesForStatus(login'.status)
  /\ exc' = "login_no_token"
  /\ pc' = "except"
  /\ UNCHANGED <<logger, args, statuses, access_token, query_params, auth_headers, logs, has_next,
                 prev_page, page_number, all_logs, file, writes, reported,
                 exitCode, requests, pages>>

(* ------------------ main: filter set and LogPager() -------------------- *)
\* the dict main builds from the parsed arguments
BuildQueryParams(a) ==
  LET base == [k \in {"start_date", "end_date", "type"} |-> a[k]]
  IN IF a.errors_only THEN Merge(base, [errors_only |-> "true"]) ELSE base

\* LogPager.__init__: keeps the dict and the bearer header
MakePager ==
  /\ pc = "build"
  /\ query_params' = BuildQueryParams(args)
  /\ auth_headers' = access_token
  /\ pc' = "loop"
  /\ UNCHANGED <<logger, login, statuses, args, posts, access_token, logs, has_next, prev_page,
                 page_number, all_logs, file, writes, exc, reported, exitCode,
                 requests, pages>>

(* ----------------------- LogPager.get_next_page ------------------------ *)
\* `if prev_page and not next_end_date`
NoMorePagesGuard(prev) == PageTruthy(prev) /\ ~Truthy(GetNED(prev))

\* variant: nextSkip is not carried into the next request
CursorOf_DropsSkip(prev) ==
  [end_date |-> IF PageTruthy(prev) THEN GetNED(prev) ELSE None,
   skip     |-> NoSkip]

\* the cursor fields taken from the previous page (None on the first call)
CursorOf(prev) ==
  [end_date |-> IF PageTruthy(prev) THEN GetNED(prev) ELSE None,
   skip     |-> IF PageTruthy(prev) THEN GetSkip(prev) ELSE NoSkip]

\* params = {**self.query_params, "end_date": next_end_date, "skip": next_skip}
RequestParams(qp, prev) == Merge(qp, CursorOf(prev))

\* the GET as issued: its params and its Authorization bearer
Request(qp, prev, hdr) == [params |-> RequestParams(qp, prev), token |-> hdr]

(* ----------------------- LogPager.get_all_logs ------------------------- *)
\* variant: the page's entries replace the accumulated list
Extend_Overwrites(l, pageLogs) == pageLogs

\* logs.extend(page["logs"])
Extend(l, pageLogs) == l \o pageLogs

\* variant: nextSkip alone also asks for another page
HasNext_OrSkip(page) == page.hasNED \/ page.hasSkip

\* has_next = "nextEndDate" in page
HasNext(page) == page.hasNED

InLoop == pc = "loop" /\ has_next /\ Len(requests) < MaxPages

\* get_next_page raises before any request is made
NoMorePages ==
  /\ pc = "loop" /\ has_next
  /\ NoMorePagesGuard(prev_page)
  /\ exc' = "no_more_pages"
  /\ pc' = "except"
  /\ UNCHANGED <<logger, login, statuses, args, posts, access_token, query_params, auth_headers, logs,
                 has_next, prev_page, page_number, all_logs, file, writes,
                 reported, exitCode, requests, pages>>

\* one loop iteration whose GET answers 2xx with a body that has "logs"
FetchOK ==
  /\ InLoop
  /\ ~NoMorePagesGuard(prev_page)
  /\ requests' = Append(requests, Request(query_params, prev_page, auth_headers))
  /\ \E page \in GoodPages :
       /\ pages' = Append(pages, page)
       /\ logs' = Extend(logs, page.logs)
       /\ has_next' = HasNext(page)
       /\ prev_page' = page
  /\ statuses' = Append(statuses, OkStatus)
  /\ ~RaisesForStatus(OkStatus)
  /\ page_number' = page_number + 1
  /\ UNCHANGED <<logger, pc, args, posts, login, access_token, query_params, auth_headers,
                 all_logs, file, writes, exc, reported, exitCode>>

\* variant: the failed GET ends the walk and the entries so far are returned
FetchBadStatus_ReturnsPartial ==
  /\ pc = "loop" /\ has_next /\ Len(requests) < MaxPages
  /\ ~NoMorePagesGuard(prev_page)
  /\ requests' = Append(requests, Request(query_params, prev_page, auth_headers))
  /\ statuses' = Append(statuses, ServerError)
  /\ all_logs' = logs
  /\ pc' = "write"
  /\ UNCHANGED <<logger, args, posts, login, access_token, query_params, auth_headers, logs,
                 has_next, prev_page, page_number, file, writes, exc,
                 reported, exitCode, pages>>

\* the GET answers non-2xx: raise_for_status() raises out of get_all_logs
FetchBadStatus ==
  /\ InLoop
  /\ ~NoMorePagesGuard(prev_page)
  /\ requests' = Append(requests, Request(query_params, prev_page, auth_headers))
  /\ statuses' = Append(statuses, ServerError)
  /\ RaisesForStatus(ServerError)
  /\ exc' = "fetch_status"
  /\ pc' = "except"
  /\ UNCHANGED <<logger, args, posts, login, access_token, query_params, auth_headers, logs,
                 has_next, prev_page, page_number, all_logs, file, writes,
                 reported, exitCode, pages>>

\* the GET answers 2xx with a body lacking "logs": page["logs"] raises KeyError
FetchNoLogs ==
  /\ InLoop
  /\ ~NoMorePagesGuard(prev_page)
  /\ requests' = Append(requests, Request(query_params, prev_page, auth_headers))
  /\ \E page \in MalformedPages : pages' = Append(pages, page)
  /\ statuses' = Append(statuses, OkStatus)
  /\ ~RaisesForStatus(OkStatus)
  /\ exc' = "no_logs_key"
  /\ pc' = "except"
  /\ UNCHANGED <<logger, args, posts, login, access_token, query_params, auth_headers, logs,
                 has_next, prev_page, page_number, all_logs, file, writes,
                 reported, exitCode>>

\* the while condition is false: return logs
ReturnLogs ==
  /\ pc = "loop" /\ ~has_next
  /\ all_logs' = logs
  /\ pc' = "write"
  /\ UNCHANGED <<logger, login, statuses, args, posts, access_token, query_params, auth_headers, logs,
                 has_next, prev_page, page_number, file, writes, exc, reported,
                 exitCode, requests, pages>>

(* ------------------------- main: logs.json ----------------------------- *)
\* open("logs.json", "w") and json.dump(all_logs, file)
WriteOutput ==
  /\ pc = "write"
  /\ file' = all_logs
  /\ writes' = writes + 1
  /\ pc' = "return"
  /\ UNCHANGED <<logger, login, statuses, args, posts, access_token, query_params, auth_headers, logs,
                 has_next, prev_page, page_number, all_logs, exc, reported,
                 exitCode, requests, pages>>

\* open() raises OSError: nothing is written
WriteOpenFails ==
  /\ pc = "write"
  /\ exc' = "open_failed"
  /\ pc' = "except"
  /\ UNCHANGED <<logger, login, statuses, args, posts, access_token, query_params, auth_headers, logs,
                 has_next, prev_page, page_number, all_logs, file, writes,
                 reported, exitCode, requests, pages>>

\* variant: the handler also dumps what was accumulated
HandleError_DumpsPartial ==
  /\ pc = "except"
  /\ reported' = TRUE
  /\ file' = logs
  /\ writes' = writes + 1
  /\ pc' = "return"
  /\ UNCHANGED <<logger, login, statuses, args, posts, access_token, query_params,
                 auth_headers, logs, has_next, prev_page, page_number, all_logs,
                 exc, exitCode, requests, pages>>

\* except Exception as e: logger.error(...)
HandleError ==
  /\ pc = "except"
  /\ reported' = TRUE
  /\ pc' = "return"
  /\ UNCHANGED <<logger, login, statuses, args, posts, access_token, query_params, auth_headers, logs,
                 has_next, prev_page, page_number, all_logs, file, writes, exc,
                 exitCode, requests, pages>>

\* main() returns to the interpreter, which exits with status 0
Exit ==
  /\ pc = "return"
  /\ exitCode' = 0
  /\ pc' = "exited"
  /\ UNCHANGED <<logger, login, statuses, args, posts, access_token, query_params, auth_headers, logs,
                 has_next, prev_page, page_number, all_logs, file, writes, exc,
                 reported, requests, pages>>

Next ==
  \/ ParseArgs \/ ParseArgsInvalid \/ MakeLogger
  \/ LoginOK \/ LoginBadStatus \/ LoginNoToken
  \/ MakePager
  \/ NoMorePages \/ FetchOK \/ FetchBadStatus \/ FetchNoLogs \/ ReturnLogs
  \/ WriteOutput \/ WriteOpenFails
  \/ HandleError
  \/ Exit

Spec == Init /\ [][Next]_vars

(* ======================== properties of the run ======================== *)
RECURSIVE ConcatLogs(_)
\* logs(p1) ++ ... ++ logs(pn) of the bodies received, in fetch order
ConcatLogs(ps) ==
  IF ps = <<>> THEN <<>>
  ELSE ConcatLogs(SubSeq(ps, 1, Len(ps) - 1))
         \o (IF ps[Len(ps)].hasLogs THEN ps[Len(ps)].logs ELSE <<>>)

RECURSIVE SumCounts(_)
SumCounts(ps) ==
  IF ps = <<>> THEN 0
  ELSE SumCounts(SubSeq(ps, 1, Len(ps) - 1))
         + (IF ps[Len(ps)].hasLogs THEN Len(ps[Len(ps)].logs) ELSE 0)

IsPrefix(a, b) == Len(a) <= Len(b) /\ SubSeq(b, 1, Len(a)) = a

Returned == all_logs # Unbound
\* LogPager(...) has been constructed
PagerBuilt == auth_headers # None
LastPage == pages[Len(pages)]
Failures == {"login_status", "login_no_token", "no_more_pages", "fetch_status",
             "no_logs_key", "open_failed"}

\* the retrieval engine's state as the design names it
EngineState ==
  IF exc \in {"no_more_pages", "fetch_status", "no_logs_key"} THEN "Failed"
  ELSE IF pc \in {"parse", "logger", "auth", "build"} \/ exc \in {"login_status", "login_no_token"}
       THEN "NotStarted"
  ELSE IF pc = "loop" /\ pages = <<>> THEN "AwaitingFirstPage"
  ELSE IF pc = "loop" /\ has_next THEN "AwaitingNextPage"
  ELSE "Done"

(* C1: when every fetch succeeds and all pages but the last carry a        *)
(* non-empty nextEndDate, get_all_logs returns the concatenation of the    *)
(* pages' logs in fetch order: the accumulated list always equals that     *)
(* concatenation, its length is the sum of the pages' entry counts, the    *)
(* returned list is the accumulated list, and every step extends the       *)
(* accumulated list (the old list is a prefix of the new one).             *)
C1_State ==
  /\ logs = ConcatLogs(pages)
  /\ Len(logs) = SumCounts(pages)
  /\ Returned => /\ all_logs = ConcatLogs(pages)
                 /\ \A k \in 1..Len(pages) :
                      /\ pages[k].hasLogs
                      /\ statuses[k] = OkStatus
                      /\ (k < Len(pages)) = (pages[k].hasNED /\ Truthy(pages[k].ned))
C1_Concatenation == [](C1_State) /\ [][IsPrefix(logs, logs')]_vars

C1_Witness ==
  /\ Returned
  /\ Len(pages) = 3
  /\ pages[1].logs = <<"e2", "e1">> /\ pages[2].logs = <<>>
  /\ pages[3].logs = <<"e2", "e1">>
  /\ all_logs = <<"e2", "e1", "e2", "e1">>

(* C2: every filter value given to the pager (time bounds, type, error     *)
(* flag) is carried unchanged by every request of the session, first       *)
(* request included, and the filter set itself stays what main built.      *)
C2_FiltersInEveryRequest ==
  /\ PagerBuilt => query_params = BuildQueryParams(args)
  /\ \A k \in 1..Len(requests) :
       \A d \in DOMAIN query_params :
          query_params[d] # None =>
             /\ d \in DOMAIN requests[k].params
             /\ requests[k].params[d] = query_params[d]

(* C3: the first request carries end_date and skip as None; for k >= 2 the *)
(* k-th request's end_date and skip are exactly nextEndDate and nextSkip   *)
(* of the (k-1)-th page received.                                          *)
C3_CursorPropagation ==
  \A k \in 1..Len(requests) :
     LET p == requests[k].params
     IN IF k = 1
        THEN p.end_date = None /\ p.skip = NoSkip
        ELSE /\ pages[k - 1].hasNED
             /\ p.end_date = pages[k - 1].ned
             /\ p.skip = (IF pages[k - 1].hasSkip THEN pages[k - 1].skip ELSE NoSkip)

C3_Witness ==
  /\ Len(requests) = 3
  /\ pages[1].ned = "d2" /\ pages[1].hasSkip /\ pages[1].skip = 2
  /\ pages[2].ned = "d1" /\ pages[2].hasSkip /\ pages[2].skip = 0
  /\ requests[3].params.end_date = "d1" /\ requests[3].params.skip = 0
  /\ args.end_date = "E"

(* C4: continuation is decided by the presence of nextEndDate alone: after *)
(* a successful fetch the engine awaits the next page exactly when the     *)
(* page contains nextEndDate, whatever its value, and is done otherwise;   *)
(* a page that contains nextEndDate never leads to the "no more pages"     *)
(* exception.                                                              *)
C4_PresenceDecides ==
  /\ exc # "no_more_pages"
  /\ (pages # <<>> /\ LastPage.hasLogs /\ statuses[Len(statuses)] = OkStatus) =>
        EngineState = (IF LastPage.hasNED THEN "AwaitingNextPage" ELSE "Done")

(* C5: a non-success status on any fetch k fails the session: the error is *)
(* raised to main's handler, get_all_logs returns nothing (the entries of  *)
(* pages 1..k-1 are not handed over or written) and request k is the last  *)
(* request of the run.                                                     *)
C5_FailedFetchAborts ==
  \A k \in 1..Len(statuses) :
     RaisesForStatus(statuses[k]) =>
        /\ k = Len(requests)
        /\ Len(pages) = k - 1
        /\ exc = "fetch_status"
        /\ EngineState = "Failed"
        /\ pc \in {"except", "return", "exited"}
        /\ ~Returned
        /\ file = Unwritten /\ writes = 0

C5_Witness ==
  /\ Len(statuses) = 2 /\ RaisesForStatus(statuses[2])
  /\ logs = <<"e2", "e1">>
  /\ pc = "exited"

(* C6: logs.json is written at most once, only after get_all_logs has      *)
(* returned on a page without nextEndDate and with the whole accumulated   *)
(* result; a run in which login or a fetch failed writes nothing.          *)
C6_WriteOnlyOnSuccess ==
  /\ writes <= 1
  /\ (writes = 0) = (file = Unwritten)
  /\ writes = 1 =>
        /\ Returned
        /\ EngineState = "Done" /\ ~LastPage.hasNED
        /\ file = ConcatLogs(pages)
        /\ exc = "none"
  /\ exc \in Failures => writes = 0

C6_Witness ==
  /\ writes = 1
  /\ Len(pages) = 2
  /\ file = <<"e2", "e1", "e2", "e1">>
  /\ pc = "exited"

(* C7: a run makes one request per page up to and including the first page *)
(* without nextEndDate: no request follows such a page, a run that returns *)
(* has made exactly as many requests as it received pages with only the    *)
(* last one lacking nextEndDate, a lone page without nextEndDate gives     *)
(* that page's entries after one GET, and page A (cursor) then page B (no  *)
(* nextEndDate) gives two GETs.                                            *)
C7_RequestCount ==
  /\ \A k \in 1..Len(pages) : ~pages[k].hasNED => Len(requests) = k
  /\ Returned =>
        /\ Len(requests) = Len(pages)
        /\ \A k \in 1..Len(pages) : pages[k].hasNED = (k < Len(pages))
  /\ (pc # "loop" /\ pages # <<>> /\ LastPage.hasLogs /\ ~LastPage.hasNED) =>
        /\ Returned
        /\ Len(requests) = Len(pages)
        /\ Len(pages) = 1 => all_logs = pages[1].logs

C7_Witness ==
  /\ pc = "exited"
  /\ Len(pages) = 1 /\ Len(requests) = 1
  /\ pages[1].hasSkip /\ ~pages[1].hasNED
  /\ file = <<"e2", "e1">>

(* C8: there is one login POST and no retry; a GET to the logs endpoint is *)
(* issued only after the login answered with a success status and a body   *)
(* holding access_token, and every GET carries that token; a failed login  *)
(* leaves the run with zero GETs.                                          *)
C8_LoginBeforeFetch ==
  /\ posts <= 1
  /\ (posts = 0) = (login = NoLogin)
  /\ requests # <<>> =>
        /\ posts = 1
        /\ ~RaisesForStatus(login.status) /\ login.hasToken
        /\ \A k \in 1..Len(requests) : requests[k].token = login.token
  /\ (posts = 1 /\ (RaisesForStatus(login.status) \/ ~login.hasToken)) =>
        /\ requests = <<>>
        /\ pc \in {"except", "return", "exited"}

C8_Witness ==
  /\ Len(requests) = 2
  /\ login.token = "tokB" /\ requests[2].token = "tokB"

(* C9: every filter given on the command line (--start_date, --end_date,   *)
(* --type, --user_id, --errors_only) is in the filter set handed to the    *)
(* pager and appears with its value in every log request.                  *)
C9_CliFiltersForwarded ==
  /\ PagerBuilt =>
        /\ \A d \in {"start_date", "end_date", "type", "user_id"} :
              args[d] # None => d \in DOMAIN query_params /\ query_params[d] = args[d]
        /\ args.errors_only => "errors_only" \in DOMAIN query_params
  /\ \A k \in 1..Len(requests) :
        /\ \A d \in {"start_date", "end_date", "type", "user_id"} :
              args[d] # None =>
                 /\ d \in DOMAIN requests[k].params
                 /\ requests[k].params[d] = args[d]
        /\ args.errors_only => "errors_only" \in DOMAIN requests[k].params

(* C10: a finished run has exit status 0 only if login and the whole       *)
(* retrieval succeeded and logs.json was written; a run in which login or  *)
(* a fetch raised ends with a non-zero status after reporting the error.   *)
C10_ExitStatus ==
  pc = "exited" =>
     /\ exitCode = 0 => (exc = "none" /\ writes = 1)
     /\ exc \in Failures => (exitCode # 0 /\ reported)

\* every answer so far was a success carrying a "logs" array
WellFormedSoFar ==
  /\ \A k \in 1..Len(statuses) : ~RaisesForStatus(statuses[k])
  /\ \A k \in 1..Len(pages) : pages[k].hasLogs

\* get_all_logs has returned or raised
Terminal == PagerBuilt /\ pc # "loop"

(* C11: on a well-formed page sequence (every fetch succeeds, every page   *)
(* has a logs array, a page without nextEndDate ends it) get_all_logs      *)
(* never reaches Failed, and the terminal state it reaches is Done with    *)
(* the accumulated result returned.                                        *)
C11_WellFormedEndsDone ==
  (PagerBuilt /\ WellFormedSoFar) =>
     /\ EngineState # "Failed"
     /\ Terminal => (EngineState = "Done" /\ Returned)

\* main has passed logger = Logger(verbose=args.verbose)
LoggerConfigured == pc \notin {"parse", "logger"} /\ exitCode # 2

(* C12: once main has built its logger, the singleton's level is DEBUG     *)
(* when --verbose was given and INFO otherwise, whatever Logger() calls    *)
(* the argument validators made before.                                    *)
C12_LevelFollowsVerbose ==
  LoggerConfigured =>
     logger.level = (IF args.verbose THEN "DEBUG" ELSE "INFO")

====
